---- MODULE Spec2Model ----
(***************************************************************************)
(* Model of amazon-movie-streamlit-dashboard.py: the two memoized loaders  *)
(* connect_mongodb and load_stats_from_mongodb, the twelve store queries   *)
(* the second one issues, the bundle it assembles, and the part of main    *)
(* that consumes the bundle.                                               *)
(*                                                                         *)
(* Conventions.  A Python value that may be None, or a document field that *)
(* may be absent, is a sequence: <<>> is None/absent, <<v>> is the value   *)
(* v.  Real numbers (averages, percentages, helpfulness ratios) are exact  *)
(* reduced fractions [num, den]; floating-point rounding is not modelled.  *)
(* A Python dict is a function whose domain is the set of keys.            *)
(***************************************************************************)
EXTENDS Bags, FiniteSets, Integers, Sequences, TLC

VARIABLES
    reviews,        \* db.reviews: a bag of review documents
    user_stats,     \* db.user_stats: a bag of documents, each its review_count
    product_stats,  \* db.product_stats: sequence of rows in natural order
    env,            \* what connect_mongodb finds: "no_uri", "setup_raises", "ok"
    dbCache,        \* st.cache_resource entry of connect_mongodb
    statsCache,     \* st.cache_data entry of load_stats_from_mongodb
    pc,             \* position of the running script (main and its callee)
    loc,            \* locals of the running load_stats_from_mongodb body
    issued,         \* store queries issued by the current run, in order
    stats,          \* main's local `stats` of the current / last run
    view,           \* what the current / last run of main put on the page
    outcome,        \* how the last run of main ended
    failed,         \* history: a store query of the current / last run raised
    ver,            \* history: number of store writes so far
    cachedVer,      \* history: value of ver when the cached bundle was computed
    prev,           \* history: the last freshly computed bundle and its ver
    other,          \* a second call of load_stats_from_mongodb, from another
                    \* session of the same process: its position, locals, result
    raced           \* history: the store was written while the current / last
                    \* uncached call of load_stats_from_mongodb was under way

vars == <<reviews, user_stats, product_stats, env, dbCache, statsCache, pc, loc,
          issued, stats, view, outcome, failed, ver, cachedVer, prev, other,
          raced>>

store == <<reviews, user_stats, product_stats>>

-----------------------------------------------------------------------------
(* Bounds of the model *)

MaxReviews == 2
MaxUsers == 2
MaxProducts == 16
MaxWrites == 1

(* Program constants *)

TopN == 15
CasualMax == 5
RegularMax == 50
MinYear == 1997

-----------------------------------------------------------------------------
(* Optional values and exact fractions *)

None == <<>>
Some(v) == <<v>>
IsNone(o) == o = <<>>
Val(o) == o[1]

Gcd[a \in Nat, b \in Nat] == IF b = 0 THEN a ELSE Gcd[b, a % b]

Reduced[n \in Nat, d \in Nat] == [num |-> n \div Gcd[n, d], den |-> d \div Gcd[n, d]]

Frac(n, d) == Reduced[n, d]
Fracs == [num : Nat, den : Nat]
Plus[a \in Fracs, b \in Fracs] == Reduced[a.num * b.den + b.num * a.den, a.den * b.den]
Over[a \in Fracs, n \in Nat] == Reduced[a.num, a.den * n]

FracAdd(a, b) == Plus[a, b]
FracDiv(a, n) == Over[a, n]
Zero == Frac(0, 1)
Num(v) == Frac(v, 1)

Min(a, b) == IF a <= b THEN a ELSE b

-----------------------------------------------------------------------------
(* Documents of the three collections *)

Review(s, y, w, h) == [score |-> s, year |-> y, word_count |-> w, helpful_ratio |-> h]

\* Review documents the model draws from: scores 1.0 and 5.0, years 1996,
\* 2000, 2001 and 0, and each field absent in at least one document.
ReviewPool ==
    { Review(Some(1), Some(2000), Some(10), None),
      Review(Some(1), Some(2001), Some(30), Some(Frac(1, 2))),
      Review(Some(5), Some(2000), None, Some(Frac(1, 1))),
      Review(Some(5), Some(2001), Some(20), Some(Frac(1, 1))),
      Review(Some(5), Some(1996), Some(10), Some(Zero)),
      Review(Some(5), Some(0), Some(10), None),
      Review(Some(1), None, Some(20), None),
      Review(None, Some(2000), None, None) }

\* review_count values of user_stats documents (absent, or a count around
\* the two thresholds)
UserCounts == {None, Some(0), Some(5), Some(6), Some(50), Some(51)}

Product(i, c) == [_id |-> i, review_count |-> c, avg_rating |-> 1 + (c % 5)]

Range(s) == {s[i] : i \in DOMAIN s}

SeqToBag(s) == [x \in Range(s) |-> Cardinality({i \in DOMAIN s : s[i] = x})]

SeqsUpTo(S, n) == UNION {[1..k -> S] : k \in 0..n}

\* The synthetic store of the specification's example: scores [1,1,5,5,5],
\* years 2000 and 2001 only.
ExampleReviews ==
    SeqToBag(<< Review(Some(1), Some(2000), Some(10), None),
                Review(Some(1), Some(2000), Some(10), None),
                Review(Some(5), Some(2001), Some(20), Some(Frac(1, 1))),
                Review(Some(5), Some(2001), Some(20), Some(Frac(1, 1))),
                Review(Some(5), Some(2001), Some(20), Some(Frac(1, 1))) >>)

ReviewStores == {SeqToBag(s) : s \in SeqsUpTo(ReviewPool, MaxReviews)} \cup {ExampleReviews}

UserStores == {SeqToBag(s) : s \in SeqsUpTo(UserCounts, MaxUsers)}

\* product_stats in natural order: review counts cycling 2,3,1,... (ties,
\* unsorted) or ascending 1,2,3,... (no ties, stored in reverse of the sort)
\* with none to three rows, and with a row count around the limit of 15
ProductSizes == 0..3 \cup (TopN - 1)..MaxProducts

ProductStores ==
    {[i \in 1..n |-> Product(i, 1 + (i % 3))] : n \in ProductSizes}
        \cup {[i \in 1..n |-> Product(i, i)] : n \in ProductSizes}

-----------------------------------------------------------------------------
(* The store's query operators, as pymongo / MongoDB evaluate them *)

RECURSIVE SumSet(_, _)
SumSet(S, f) ==
    IF S = {} THEN 0
    ELSE LET x == CHOOSE y \in S : TRUE IN f[x] + SumSet(S \ {x}, f)

RECURSIVE FracSum(_, _)
FracSum(S, f) ==
    IF S = {} THEN Zero
    ELSE LET x == CHOOSE y \in S : TRUE IN FracAdd(f[x], FracSum(S \ {x}, f))

\* collection.count_documents(filter), `matching` being the distinct
\* documents of `coll` that satisfy the filter
CountDocuments(coll, matching) ==
    SumSet(matching, [d \in matching |-> CopiesIn(d, coll)])

Docs(coll) == BagToSet(coll)

\* {"$lte": n} and {"$gt": n}: a comparison matches numbers only; an absent
\* or null field matches neither
Lte(o, n) == ~IsNone(o) /\ Val(o) <= n
Gt(o, n) == ~IsNone(o) /\ Val(o) > n

\* BSON order of group ids: null before every number
IdLess(a, b) == \/ IsNone(a) /\ ~IsNone(b)
                \/ ~IsNone(a) /\ ~IsNone(b) /\ Val(a) < Val(b)

\* {"$sort": {"_id": 1}} over the distinct ids of a $group
RECURSIVE SortIds(_)
SortIds(S) ==
    IF S = {} THEN <<>>
    ELSE LET m == CHOOSE x \in S : \A y \in S \ {x} : IdLess(x, y)
         IN <<m>> \o SortIds(S \ {m})

\* {"$avg": "$field"} over the documents of `coll` satisfying In: documents
\* whose field is absent or null are skipped; null when none is left
\* NumField with an absent field read as the number 0
NumFieldZero(o) == IF IsNone(o) THEN Some(Zero) ELSE Some(Num(Val(o)))

NumField(o) == IF IsNone(o) THEN None ELSE Some(Num(Val(o)))

\* `operand` maps each distinct document of the group to the value of the
\* averaged field
Avg(coll, operand) ==
    LET S == {d \in DOMAIN operand : ~IsNone(operand[d])}
        n == SumSet(S, [d \in S |-> CopiesIn(d, coll)])
        t == FracSum(S, [d \in S |-> LET v == Val(operand[d])
                                     IN Frac(v.num * CopiesIn(d, coll), v.den)])
    IN IF n = 0 THEN None ELSE Some(FracDiv(t, n))

\* str() of a float id and of an int id
StrFloat(o) == IF IsNone(o) THEN "None" ELSE ToString(Val(o)) \o ".0"
StrInt(o) == IF IsNone(o) THEN "None" ELSE ToString(Val(o))

\* bool() of a group id, as `if y['_id']` tests it
Truthy(o) == ~IsNone(o) /\ Val(o) # 0

\* {key: value for r in rows}, given the keys and the values row by row:
\* the last row of a key wins
DictOf(keys, values) ==
    [k \in Range(keys) |->
        LET last == CHOOSE i \in DOMAIN keys :
                        /\ keys[i] = k
                        /\ \A j \in DOMAIN keys : keys[j] = k => j <= i
        IN values[last]]

-----------------------------------------------------------------------------
(* The twelve queries of load_stats_from_mongodb, as functions of the store *)

\* TotalReviews counting the distinct documents: equal reviews count once
TotalReviewsDistinct(rv) == Cardinality(Docs(rv))

\* db.reviews.count_documents({}), db.user_stats..., db.product_stats...
TotalReviews(rv) == CountDocuments(rv, Docs(rv))
UniqueUsers(us) == CountDocuments(us, Docs(us))
UniqueProducts(ps) == Len(ps)

\* $group by $score with {"$sum": 1}, $sort by _id; an absent score groups
\* under null
RatingResults(rv) ==
    LET ids == SortIds({d.score : d \in Docs(rv)})
    IN [i \in DOMAIN ids |->
          [_id |-> ids[i],
           count |-> CountDocuments(rv, {d \in Docs(rv) : d.score = ids[i]})]]

\* RatingCounts keyed by the integer label, as str(int(score)) would give
RatingCountsIntKeys(rv) ==
    LET rows == RatingResults(rv)
    IN DictOf([i \in DOMAIN rows |-> StrInt(rows[i]._id)],
              [i \in DOMAIN rows |-> rows[i].count])

RatingCounts(rv) ==
    LET rows == RatingResults(rv)
    IN DictOf([i \in DOMAIN rows |-> StrFloat(rows[i]._id)],
              [i \in DOMAIN rows |-> rows[i].count])

\* $group by $year with count and {"$avg": "$score"}, $sort by _id
YearlyResults(rv) ==
    LET ids == SortIds({d.year : d \in Docs(rv)})
    IN [i \in DOMAIN ids |->
          LET group == {d \in Docs(rv) : d.year = ids[i]}
          IN [_id |-> ids[i],
              count |-> CountDocuments(rv, group),
              avg_rating |-> Avg(rv, [d \in group |-> NumField(d.score)])]]

\* the `if y['_id']` of the comprehension
YearKept(y) == Truthy(y._id)

YearlyData(rv) ==
    LET rows == SelectSeq(YearlyResults(rv), YearKept)
    IN DictOf([i \in DOMAIN rows |-> StrInt(rows[i]._id)],
              [i \in DOMAIN rows |-> [count |-> rows[i].count,
                                      avg_rating |-> rows[i].avg_rating]])

\* Casual with a strict bound: a count of exactly 5 is not casual
CasualStrict(us) ==
    CountDocuments(us, {c \in Docs(us) : ~IsNone(c) /\ Val(c) < CasualMax})

\* the three segment counts over user_stats
Casual(us) == CountDocuments(us, {c \in Docs(us) : Lte(c, CasualMax)})
\* Regular with both bounds strict: a count of exactly 50 is in no segment
RegularStrict(us) ==
    CountDocuments(us, {c \in Docs(us) : Gt(c, CasualMax) /\ ~IsNone(c)
                                          /\ Val(c) < RegularMax})

Regular(us) ==
    CountDocuments(us, {c \in Docs(us) : Gt(c, CasualMax) /\ Lte(c, RegularMax)})
Power(us) == CountDocuments(us, {c \in Docs(us) : Gt(c, RegularMax)})

\* find().sort("review_count", -1): rows by review_count descending.  The
\* order of rows with equal review_count is not defined by the store; the
\* model lets it be the natural order or its reverse.
TieOrders == {"natural", "reverse"}

RECURSIVE SortDesc(_, _, _)
SortDesc(ps, left, tie) ==
    IF left = {} THEN <<>>
    ELSE LET best == {i \in left : \A j \in left :
                          ps[j].review_count <= ps[i].review_count}
             pick == IF tie = "natural"
                     THEN CHOOSE i \in best : \A j \in best : i <= j
                     ELSE CHOOSE i \in best : \A j \in best : j <= i
         IN <<ps[pick]>> \o SortDesc(ps, left \ {pick}, tie)

\* Limit that lets one row too many through
LimitOneMore(rows, n) == SubSeq(rows, 1, Min(n + 1, Len(rows)))

\* .limit(n)
Limit(rows, n) == SubSeq(rows, 1, Min(n, Len(rows)))

\* TopProducts without the sort: the first rows in the order the store
\* returns them, which without a sort is the natural order or its reverse
TopProductsUnsorted(ps, tie) ==
    Limit(IF tie = "natural" THEN ps
          ELSE [i \in DOMAIN ps |-> ps[Len(ps) + 1 - i]], TopN)

TopProducts(ps, tie) == Limit(SortDesc(ps, DOMAIN ps, tie), TopN)

\* AvgResult as if the $group returned its row over an empty collection too
AvgResultAlwaysRow(rv) ==
    << [avg_rating |-> Avg(rv, [d \in Docs(rv) |-> NumField(d.score)]),
        avg_word_count |-> Avg(rv, [d \in Docs(rv) |-> NumField(d.word_count)])] >>

\* $group with _id None: one row over all reviews, no row when there is none
AvgResult(rv) ==
    IF Docs(rv) = {} THEN <<>>
    ELSE << [avg_rating |-> Avg(rv, [d \in Docs(rv) |-> NumField(d.score)]),
             avg_word_count |->
                 Avg(rv, [d \in Docs(rv) |-> NumField(d.word_count)])] >>

\* $group by $score with {"$avg": "$word_count"}, $sort by _id
WcResults(rv) ==
    LET ids == SortIds({d.score : d \in Docs(rv)})
    IN [i \in DOMAIN ids |->
          LET group == {d \in Docs(rv) : d.score = ids[i]}
          IN [_id |-> ids[i],
              avg_wc |-> Avg(rv, [d \in group |-> NumField(d.word_count)])]]

WordCountByRating(rv) ==
    LET rows == WcResults(rv)
    IN DictOf([i \in DOMAIN rows |-> StrFloat(rows[i]._id)],
              [i \in DOMAIN rows |-> rows[i].avg_wc])

\* $match helpful_ratio != null, $group by $score with the average, $sort
\* HelpMatch without the $match stage: every review passes
HelpMatchAll(d) == TRUE

HelpMatch(d) == ~IsNone(d.helpful_ratio)

HelpResults(rv) ==
    LET matched == {d \in Docs(rv) : HelpMatch(d)}
        ids == SortIds({d.score : d \in matched})
    IN [i \in DOMAIN ids |->
          LET group == {d \in matched : d.score = ids[i]}
          IN [_id |-> ids[i],
              avg_helpful |-> Avg(rv, [d \in group |-> d.helpful_ratio])]]

HelpfulByRating(rv) ==
    LET rows == HelpResults(rv)
    IN DictOf([i \in DOMAIN rows |-> StrFloat(rows[i]._id)],
              [i \in DOMAIN rows |-> rows[i].avg_helpful])

\* RatingPercentages without the factor 100: fractions instead of percentages
RatingFractions(rc, total) ==
    IF total > 0 THEN [k \in DOMAIN rc |-> Frac(rc[k], total)] ELSE <<>>

\* v / total_reviews * 100 for every rating count, {} when total_reviews is 0
RatingPercentages(rc, total) ==
    IF total > 0 THEN [k \in DOMAIN rc |-> Frac(rc[k] * 100, total)] ELSE <<>>

\* the dict returned at lines 195-211, from the locals of the body
Bundle(l) ==
    [total_reviews |-> l.total_reviews,
     unique_users |-> l.unique_users,
     unique_products |-> l.unique_products,
     avg_rating |-> IF l.avg_result # <<>> THEN l.avg_result[1].avg_rating
                    ELSE Some(Zero),
     avg_word_count |-> IF l.avg_result # <<>> THEN l.avg_result[1].avg_word_count
                        ELSE Some(Zero),
     rating_counts |-> l.rating_counts,
     rating_percentages |-> RatingPercentages(l.rating_counts, l.total_reviews),
     yearly_data |-> l.yearly_data,
     user_segments |-> [casual |-> l.casual, regular |-> l.regular, power |-> l.power],
     power_users |-> l.power,
     word_count_by_rating |-> l.word_count_by_rating,
     helpful_by_rating |-> l.helpful_by_rating,
     top_products |-> l.top_products,
     source |-> "MongoDB (150K Sample)"]

-----------------------------------------------------------------------------
(* The memoizing decorators and the page *)

\* an entry of st.cache_resource / st.cache_data: absent, or the value the
\* function returned (None included); no ttl is given, so it never expires
NotCached == <<>>
Cached(v) == <<v>>
IsCached(c) == c # <<>>

HoldsBundle(c) == IsCached(c) /\ ~IsNone(c[1])

Envs == {"no_uri", "setup_raises", "ok"}

\* body of connect_mongodb: None without MONGODB_URI, None when the setup
\* raises, else the database handle
ConnectBody(e) == IF e = "ok" THEN Some("db") ELSE None

NoView == [errors |-> {}, loaded |-> FALSE, metrics |-> FALSE, tabs |-> <<>>,
           charts |-> <<>>]

ConnectFailedMsg == "MongoDB connection failed"
NoDataMsg == "Could not connect to MongoDB. Check your .env file."

Ratings == <<"1.0", "2.0", "3.0", "4.0", "5.0">>

TabOrder == <<"tab0", "tab7", "tab1", "tab2", "tab3", "tab4", "tab5", "tab6">>

\* d.get(k, v)
GetOr(d, k, v) == IF k \in DOMAIN d THEN d[k] ELSE v

\* d.get(k) without the default: None for a missing key
GetNoDefault(d, k) == GetOr(d, k, None)

\* d.get(k, 0) on a dict of averages
Get(d, k) == GetOr(d, k, Some(Zero))

\* format(v, ".2f") and the like raise TypeError on None
FormatRaises(o) == IsNone(o)

\* int(s) of a dict key: the integer whose decimal form s is; None stands
\* for the ValueError that any other string gives.  The integers looked for
\* are the years a review of the model can carry.
IntLiterals == {Val(d.year) : d \in {x \in ReviewPool : ~IsNone(x.year)}}

IntOf(s) ==
    LET hit == {n \in IntLiterals : ToString(n) = s}
    IN IF hit = {} THEN None ELSE Some(CHOOSE n \in hit : TRUE)

\* sorted(list of ints)
RECURSIVE Sorted(_)
Sorted(S) ==
    IF S = {} THEN <<>>
    ELSE LET least == CHOOSE x \in S : \A y \in S : x <= y
         IN <<least>> \o Sorted(S \ {least})

\* TrendYears without the `>= 1997` filter
TrendYearsAll(b) == Sorted({Val(IntOf(k)) : k \in DOMAIN b.yearly_data})

\* tab1, lines 545-547: the years from 1997 on, ascending, and the two
\* series looked up by str(year)
TrendYears(b) ==
    Sorted({Val(IntOf(k)) : k \in {x \in DOMAIN b.yearly_data :
                                      Val(IntOf(x)) >= MinYear}})

TrendCounts(b) ==
    LET years == TrendYears(b)
    IN [i \in DOMAIN years |-> b.yearly_data[StrInt(Some(years[i]))].count]

TrendAvgRatings(b) ==
    LET years == TrendYears(b)
    IN [i \in DOMAIN years |-> b.yearly_data[StrInt(Some(years[i]))].avg_rating]

\* tab5, line 712: the divisor of the segment percentages
TotalUsers(b) ==
    LET sum == b.user_segments.casual + b.user_segments.regular + b.user_segments.power
    IN IF sum > 0 THEN sum ELSE 1

\* what a tab that is rendered to completion shows of the bundle
TabContent(t, b) ==
    CASE t = "tab1" -> [years |-> TrendYears(b), counts |-> TrendCounts(b),
                        avg_ratings |-> TrendAvgRatings(b)]
      [] t = "tab2" -> [counts |-> [i \in DOMAIN Ratings |->
                                       GetOr(b.rating_counts, Ratings[i], 0)]]
      [] t = "tab3" -> [helpful_vals |-> [i \in DOMAIN Ratings |->
                                       Get(b.helpful_by_rating, Ratings[i])]]
      [] t = "tab4" -> [word_counts |-> [i \in DOMAIN Ratings |->
                                       Get(b.word_count_by_rating, Ratings[i])],
                        avg_word_count |-> b.avg_word_count]
      [] t = "tab5" -> [segments |-> b.user_segments, total_users |-> TotalUsers(b),
                        percentages |->
                            [k \in {"casual", "regular", "power"} |->
                                Frac(b.user_segments[k] * 100, TotalUsers(b))]]
      [] t = "tab6" -> [chart |-> b.top_products # <<>>,
                        review_counts |-> [i \in DOMAIN b.top_products |->
                                              b.top_products[i].review_count]]
      [] OTHER -> [static |-> TRUE]

\* whether rendering the named tab raises, given the bundle
TabRaises(t, b) ==
    CASE t = "tab1" -> \E k \in DOMAIN b.yearly_data : IsNone(IntOf(k))
      [] t = "tab3" -> \E i \in DOMAIN Ratings :
                           FormatRaises(Get(b.helpful_by_rating, Ratings[i]))
      [] t = "tab4" -> \/ \E i \in DOMAIN Ratings :
                              FormatRaises(Get(b.word_count_by_rating, Ratings[i]))
                       \/ FormatRaises(b.avg_word_count)
      [] OTHER -> FALSE

\* the tabs rendered to completion, in the order the script reaches them
RECURSIVE TabsDone(_, _)
TabsDone(b, i) ==
    IF i > Len(TabOrder) \/ TabRaises(TabOrder[i], b) THEN <<>>
    ELSE <<TabOrder[i]>> \o TabsDone(b, i + 1)

-----------------------------------------------------------------------------
(* Initial states *)

BaseReviews == SeqToBag(<<Review(Some(1), Some(2000), Some(10), None)>>)
BaseUsers == SeqToBag(<<Some(5)>>)
BaseProducts == <<Product(1, 1), Product(2, 2)>>

\* one collection ranges over its stores while the other two hold a small
\* fixed content; plus the store whose three collections are empty
InitStores ==
    (ReviewStores \X {BaseUsers} \X {BaseProducts})
        \cup ({BaseReviews} \X UserStores \X {BaseProducts})
        \cup ({BaseReviews} \X {BaseUsers} \X ProductStores)
        \cup {<<EmptyBag, EmptyBag, <<>> >>}

\* no second call is under way
NoOther == [pc |-> "idle", loc |-> <<>>, result |-> None]

\* the state of a process that has just started, over one of the stores
InitFrom(stores) ==
    /\ \E st \in stores :
          /\ reviews = st[1]
          /\ user_stats = st[2]
          /\ product_stats = st[3]
    /\ env \in Envs
    /\ dbCache = NotCached
    /\ statsCache = NotCached
    /\ pc = "idle"
    /\ loc = <<>>
    /\ issued = <<>>
    /\ stats = None
    /\ view = NoView
    /\ outcome = "none"
    /\ failed = FALSE
    /\ ver = 0
    /\ cachedVer = 0
    /\ prev = <<>>
    /\ other = NoOther
    /\ raced = FALSE

Init == InitFrom(InitStores)

-----------------------------------------------------------------------------
(* A run of the script *)

\* Request with an expiring cache: an entry computed before the last change
\* of the store counts as a miss, as st.cache_data(ttl=...) would make it
RequestExpiring ==
    /\ pc = "idle"
    /\ issued' = <<>>
    /\ loc' = <<>>
    /\ view' = NoView
    /\ outcome' = "running"
    /\ failed' = FALSE
    /\ IF IsCached(statsCache) /\ cachedVer = ver
         THEN stats' = statsCache[1] /\ pc' = "main" /\ raced' = raced
         ELSE stats' = None /\ pc' = "connect" /\ raced' = FALSE
    /\ UNCHANGED <<other, store, env, dbCache, statsCache, ver, cachedVer, prev>>

\* main, lines 218-240: the page header, then the call of
\* load_stats_from_mongodb, answered from st.cache_data when it holds an entry
Request ==
    /\ pc = "idle"
    /\ issued' = <<>>
    /\ loc' = <<>>
    /\ view' = NoView
    /\ outcome' = "running"
    /\ failed' = FALSE
    /\ IF IsCached(statsCache)
         THEN stats' = statsCache[1] /\ pc' = "main" /\ raced' = raced
         ELSE stats' = None /\ pc' = "connect" /\ raced' = FALSE
    /\ UNCHANGED <<other, store, env, dbCache, statsCache, ver, cachedVer, prev>>

\* Connect without the `if db is None: return None` of line 152
ConnectNoNoneCheck ==
    /\ pc = "connect"
    /\ LET db == IF IsCached(dbCache) THEN dbCache[1] ELSE ConnectBody(env)
       IN /\ dbCache' = Cached(db)
          /\ view' = IF ~IsCached(dbCache) /\ env = "setup_raises"
                     THEN [view EXCEPT !.errors = @ \cup {ConnectFailedMsg}]
                     ELSE view
    /\ pc' = "q_total_reviews"
    /\ UNCHANGED <<other, store, env, loc, issued, outcome, failed, ver, prev,
                   statsCache, stats, cachedVer, raced>>

\* load_stats_from_mongodb, lines 151-153: the call of connect_mongodb
\* (answered from st.cache_resource when it holds an entry) and the early
\* return of None, which st.cache_data stores like any other value
Connect ==
    /\ pc = "connect"
    /\ LET db == IF IsCached(dbCache) THEN dbCache[1] ELSE ConnectBody(env)
       IN /\ dbCache' = Cached(db)
          /\ view' = IF ~IsCached(dbCache) /\ env = "setup_raises"
                     THEN [view EXCEPT !.errors = @ \cup {ConnectFailedMsg}]
                     ELSE view
          /\ IF IsNone(db)
               THEN /\ statsCache' = Cached(None)
                    /\ stats' = None
                    /\ cachedVer' = ver
                    /\ pc' = "main"
               ELSE /\ pc' = "q_total_reviews"
                    /\ UNCHANGED <<statsCache, stats, cachedVer>>
    /\ UNCHANGED <<other, store, env, loc, issued, outcome, failed, ver, prev,
                   raced>>

\* Query issuing its query a second time, as a retry would
QueryRetried(here, next, name, local, value) ==
    /\ pc = here
    /\ pc' = next
    /\ issued' = Append(Append(issued, name), name)
    /\ loc' = (local :> value) @@ loc
    /\ UNCHANGED <<other, store, env, dbCache, statsCache, stats, view,
                   outcome, failed, ver, cachedVer, prev, raced>>

\* one store query of the body: issued, awaited, its result bound to a local
Query(here, next, name, local, value) ==
    /\ pc = here
    /\ pc' = next
    /\ issued' = Append(issued, name)
    /\ loc' = (local :> value) @@ loc
    /\ UNCHANGED <<other, store, env, dbCache, statsCache, stats, view,
                   outcome, failed, ver, cachedVer, prev, raced>>

QTotalReviews ==
    Query("q_total_reviews", "q_unique_users", "reviews.count_documents",
          "total_reviews", TotalReviews(reviews))

QUniqueUsers ==
    Query("q_unique_users", "q_unique_products", "user_stats.count_documents",
          "unique_users", UniqueUsers(user_stats))

QUniqueProducts ==
    Query("q_unique_products", "q_rating", "product_stats.count_documents",
          "unique_products", UniqueProducts(product_stats))

QRating ==
    Query("q_rating", "q_yearly", "reviews.aggregate(score count)",
          "rating_counts", RatingCounts(reviews))

QYearly ==
    Query("q_yearly", "q_casual", "reviews.aggregate(year)",
          "yearly_data", YearlyData(reviews))

QCasual ==
    Query("q_casual", "q_regular", "user_stats.count_documents(casual)",
          "casual", Casual(user_stats))

QRegular ==
    Query("q_regular", "q_power", "user_stats.count_documents(regular)",
          "regular", Regular(user_stats))

QPower ==
    Query("q_power", "q_top", "user_stats.count_documents(power)",
          "power", Power(user_stats))

\* QTopProducts sorting the collection in place instead of reading it
QTopProductsInPlace ==
    \E tie \in TieOrders :
        /\ pc = "q_top"
        /\ pc' = "q_avg"
        /\ issued' = Append(issued, "product_stats.find.sort.limit")
        /\ product_stats' = SortDesc(product_stats, DOMAIN product_stats, tie)
        /\ loc' = ("top_products" :> Limit(product_stats', TopN)) @@ loc
        /\ UNCHANGED <<other, reviews, user_stats, env, dbCache, statsCache,
                       stats, view, outcome, failed, ver, cachedVer, prev,
                       raced>>

QTopProducts ==
    \E tie \in TieOrders :
        Query("q_top", "q_avg", "product_stats.find.sort.limit",
              "top_products", TopProducts(product_stats, tie))

QAvg ==
    Query("q_avg", "q_wc", "reviews.aggregate(avg)",
          "avg_result", AvgResult(reviews))

QWordCount ==
    Query("q_wc", "q_help", "reviews.aggregate(score avg_wc)",
          "word_count_by_rating", WordCountByRating(reviews))

QHelpful ==
    Query("q_help", "assemble", "reviews.aggregate(score avg_helpful)",
          "helpful_by_rating", HelpfulByRating(reviews))

QueryPcs == {"q_total_reviews", "q_unique_users", "q_unique_products", "q_rating",
             "q_yearly", "q_casual", "q_regular", "q_power", "q_top", "q_avg",
             "q_wc", "q_help"}

\* a store query raises (server unreachable, network error): nothing in
\* load_stats_from_mongodb or main catches it, st.cache_data stores nothing,
\* and the run of main ends with the exception
QueryFails ==
    /\ pc \in QueryPcs
    /\ pc' = "idle"
    /\ outcome' = "crashed"
    /\ failed' = TRUE
    /\ loc' = <<>>
    /\ issued' = <<>>
    /\ UNCHANGED <<other, store, env, dbCache, statsCache, stats, view, ver,
                   cachedVer, prev, raced>>

\* lines 195-211: the bundle is built from the locals and returned;
\* st.cache_data stores it
Assemble ==
    /\ pc = "assemble"
    /\ LET b == Bundle(loc)
       IN /\ statsCache' = Cached(Some(b))
          /\ stats' = Some(b)
    /\ cachedVer' = ver
    /\ loc' = <<>>
    /\ pc' = "main"
    /\ UNCHANGED <<other, store, env, dbCache, issued, view, outcome, failed,
                   ver, prev, raced>>

\* Display with tab1 deleting the years before 1997 from the dict it was
\* handed instead of building a filtered list
DisplayPruning ==
    /\ pc = "main"
    /\ pc' = "idle"
    /\ IF IsNone(stats)
         THEN /\ view' = [view EXCEPT !.errors = @ \cup {NoDataMsg}]
              /\ outcome' = "no_data"
              /\ stats' = stats
         ELSE LET b == Val(stats)
                  tabs == TabsDone(b, 1)
                  kept == {k \in DOMAIN b.yearly_data : Val(IntOf(k)) >= MinYear}
              IN /\ stats' = Some([b EXCEPT !.yearly_data = [k \in kept |-> @[k]]])
                 /\ IF FormatRaises(b.avg_rating)
                      THEN /\ view' = [view EXCEPT !.loaded = TRUE]
                           /\ outcome' = "crashed"
                      ELSE /\ view' = [view EXCEPT
                                          !.loaded = TRUE, !.metrics = TRUE,
                                          !.tabs = tabs,
                                          !.charts = [t \in Range(tabs) |->
                                                         TabContent(t, b)]]
                           /\ outcome' = IF Len(tabs) = Len(TabOrder)
                                         THEN "rendered" ELSE "crashed"
    /\ UNCHANGED <<other, store, env, dbCache, statsCache, loc, issued, failed,
                   ver, cachedVer, prev, raced>>

\* main, lines 241-807: the None check with its error message and return,
\* else the sidebar note, the four metrics and the eight tabs; a format of
\* None raises and ends the run there
Display ==
    /\ pc = "main"
    /\ pc' = "idle"
    /\ IF IsNone(stats)
         THEN /\ view' = [view EXCEPT !.errors = @ \cup {NoDataMsg}]
              /\ outcome' = "no_data"
         ELSE LET b == Val(stats)
                  tabs == TabsDone(b, 1)
              IN IF FormatRaises(b.avg_rating)
                   THEN /\ view' = [view EXCEPT !.loaded = TRUE]
                        /\ outcome' = "crashed"
                   ELSE /\ view' = [view EXCEPT
                                       !.loaded = TRUE, !.metrics = TRUE,
                                       !.tabs = tabs,
                                       !.charts = [t \in Range(tabs) |->
                                                      TabContent(t, b)]]
                        /\ outcome' = IF Len(tabs) = Len(TabOrder)
                                      THEN "rendered" ELSE "crashed"
    /\ UNCHANGED <<other, store, env, dbCache, statsCache, loc, issued, stats,
                   failed, ver, cachedVer, prev, raced>>

-----------------------------------------------------------------------------
(* A second call of load_stats_from_mongodb, from another session *)

\* Streamlit runs the script of each session in a thread of its own, so a
\* second call of load_stats_from_mongodb can start while the first is under
\* way.  Its locals are its own; what it shares with the first call is the
\* store and the two caches.  Whether st.cache_data lets the two bodies
\* overlap or makes the second wait is left open: every interleaving is a
\* behaviour of the model.

\* the query the body issues at position p: where the body goes next, the
\* local the result is bound to, and the result
QueryAt(p, tie) ==
    CASE p = "q_total_reviews" ->
            [next |-> "q_unique_users", local |-> "total_reviews",
             value |-> TotalReviews(reviews)]
      [] p = "q_unique_users" ->
            [next |-> "q_unique_products", local |-> "unique_users",
             value |-> UniqueUsers(user_stats)]
      [] p = "q_unique_products" ->
            [next |-> "q_rating", local |-> "unique_products",
             value |-> UniqueProducts(product_stats)]
      [] p = "q_rating" ->
            [next |-> "q_yearly", local |-> "rating_counts",
             value |-> RatingCounts(reviews)]
      [] p = "q_yearly" ->
            [next |-> "q_casual", local |-> "yearly_data",
             value |-> YearlyData(reviews)]
      [] p = "q_casual" ->
            [next |-> "q_regular", local |-> "casual", value |-> Casual(user_stats)]
      [] p = "q_regular" ->
            [next |-> "q_power", local |-> "regular", value |-> Regular(user_stats)]
      [] p = "q_power" ->
            [next |-> "q_top", local |-> "power", value |-> Power(user_stats)]
      [] p = "q_top" ->
            [next |-> "q_avg", local |-> "top_products",
             value |-> TopProducts(product_stats, tie)]
      [] p = "q_avg" ->
            [next |-> "q_wc", local |-> "avg_result", value |-> AvgResult(reviews)]
      [] p = "q_wc" ->
            [next |-> "q_help", local |-> "word_count_by_rating",
             value |-> WordCountByRating(reviews)]
      [] p = "q_help" ->
            [next |-> "assemble", local |-> "helpful_by_rating",
             value |-> HelpfulByRating(reviews)]

\* the second call starts: a cache hit returns the cached value at once
OtherRequest ==
    /\ other.pc \in {"idle", "done"}
    /\ other' = IF IsCached(statsCache)
                THEN [pc |-> "done", loc |-> <<>>, result |-> statsCache[1]]
                ELSE [pc |-> "connect", loc |-> <<>>, result |-> None]
    /\ UNCHANGED <<store, env, dbCache, statsCache, pc, loc, issued, stats,
                   view, outcome, failed, ver, cachedVer, prev, raced>>

\* lines 151-153 in the second call
OtherConnect ==
    /\ other.pc = "connect"
    /\ LET db == IF IsCached(dbCache) THEN dbCache[1] ELSE ConnectBody(env)
       IN /\ dbCache' = Cached(db)
          /\ IF IsNone(db)
               THEN /\ statsCache' = Cached(None)
                    /\ cachedVer' = ver
                    /\ other' = [pc |-> "done", loc |-> <<>>, result |-> None]
               ELSE /\ other' = [other EXCEPT !.pc = "q_total_reviews"]
                    /\ UNCHANGED <<statsCache, cachedVer>>
    /\ UNCHANGED <<store, env, pc, loc, issued, stats, view, outcome, failed,
                   ver, prev, raced>>

\* OtherQuery binding its result in the locals of the first call as well, as
\* it would if the locals were module globals
OtherQueryShared ==
    \E tie \in TieOrders :
        /\ other.pc \in QueryPcs
        /\ LET q == QueryAt(other.pc, tie)
           IN /\ other' = [other EXCEPT !.pc = q.next,
                                        !.loc = (q.local :> q.value) @@ @]
              /\ loc' = (q.local :> q.value) @@ loc
        /\ UNCHANGED <<store, env, dbCache, statsCache, pc, issued, stats,
                       view, outcome, failed, ver, cachedVer, prev, raced>>

\* one query of the second call, its result bound to a local of that call
OtherQuery ==
    \E tie \in TieOrders :
        /\ other.pc \in QueryPcs
        /\ LET q == QueryAt(other.pc, tie)
           IN other' = [other EXCEPT !.pc = q.next,
                                     !.loc = (q.local :> q.value) @@ @]
        /\ UNCHANGED <<store, env, dbCache, statsCache, pc, loc, issued, stats,
                       view, outcome, failed, ver, cachedVer, prev, raced>>

\* lines 195-211 in the second call: its bundle is returned and cached
OtherAssemble ==
    /\ other.pc = "assemble"
    /\ LET b == Bundle(other.loc)
       IN /\ statsCache' = Cached(Some(b))
          /\ other' = [pc |-> "done", loc |-> <<>>, result |-> Some(b)]
    /\ cachedVer' = ver
    /\ UNCHANGED <<store, env, dbCache, pc, loc, issued, stats, view, outcome,
                   failed, ver, prev, raced>>

-----------------------------------------------------------------------------
(* The environment: writers of the store, and the end of the process *)

\* what a writer inserts: a one-star or a five-star review, a casual or a
\* power user
NewReviews ==
    { Review(Some(1), Some(2001), Some(30), Some(Frac(1, 2))),
      Review(Some(5), Some(2000), None, Some(Frac(1, 1))) }

NewUserCounts == {Some(0), Some(51)}

WriteDone ==
    /\ ver < MaxWrites
    /\ ver' = ver + 1
    /\ raced' = (raced \/ pc \in QueryPcs \cup {"connect", "assemble"})
    /\ UNCHANGED <<other, env, dbCache, statsCache, pc, loc, issued, stats, view,
                   outcome, failed, cachedVer, prev>>

InsertReview ==
    /\ BagCardinality(reviews) < MaxReviews
    /\ \E r \in NewReviews : reviews' = reviews (+) SetToBag({r})
    /\ UNCHANGED <<user_stats, product_stats>>
    /\ WriteDone

DeleteReview ==
    /\ \E r \in BagToSet(reviews) : reviews' = reviews (-) SetToBag({r})
    /\ UNCHANGED <<user_stats, product_stats>>
    /\ WriteDone

InsertUser ==
    /\ BagCardinality(user_stats) < MaxUsers
    /\ \E c \in NewUserCounts : user_stats' = user_stats (+) SetToBag({c})
    /\ UNCHANGED <<reviews, product_stats>>
    /\ WriteDone

DeleteUser ==
    /\ \E c \in BagToSet(user_stats) : user_stats' = user_stats (-) SetToBag({c})
    /\ UNCHANGED <<reviews, product_stats>>
    /\ WriteDone

\* a new product row, with the review count of the first row or one review
InsertProduct ==
    /\ Len(product_stats) < MaxProducts
    /\ \E c \in {1} \cup {product_stats[i].review_count : i \in DOMAIN product_stats
                                                           \cap {1}} :
          product_stats' = Append(product_stats, Product(Len(product_stats) + 1, c))
    /\ UNCHANGED <<reviews, user_stats>>
    /\ WriteDone

\* the last row is removed
DeleteProduct ==
    /\ product_stats # <<>>
    /\ product_stats' = SubSeq(product_stats, 1, Len(product_stats) - 1)
    /\ UNCHANGED <<reviews, user_stats>>
    /\ WriteDone

Write ==
    \/ InsertReview
    \/ DeleteReview
    \/ InsertUser
    \/ DeleteUser
    \/ InsertProduct
    \/ DeleteProduct

\* in Spec the store is written only between runs of the script
QuietWrite == pc = "idle" /\ Write

\* between two runs the cause of the missing handle goes away: MONGODB_URI
\* is put into .env, or the client setup no longer raises
Recover ==
    /\ pc = "idle"
    /\ env # "ok"
    /\ env' = "ok"
    /\ UNCHANGED <<store, dbCache, statsCache, pc, loc, issued, stats, view,
                   outcome, failed, ver, cachedVer, prev, other, raced>>

\* the process ends and a new one starts: both caches are process-local
ProcessRestart ==
    /\ pc = "idle"
    /\ IsCached(dbCache) \/ IsCached(statsCache)
    /\ dbCache' = NotCached
    /\ statsCache' = NotCached
    /\ prev' = IF HoldsBundle(statsCache)
               THEN <<[bundle |-> Val(statsCache[1]), ver |-> cachedVer]>>
               ELSE prev
    /\ stats' = None
    /\ view' = NoView
    /\ outcome' = "none"
    /\ issued' = <<>>
    /\ failed' = FALSE
    /\ UNCHANGED <<other, store, env, pc, loc, ver, cachedVer, raced>>

Next ==
    \/ Request
    \/ Connect
    \/ QTotalReviews
    \/ QUniqueUsers
    \/ QUniqueProducts
    \/ QRating
    \/ QYearly
    \/ QCasual
    \/ QRegular
    \/ QPower
    \/ QTopProducts
    \/ QAvg
    \/ QWordCount
    \/ QHelpful
    \/ QueryFails
    \/ Assemble
    \/ Display
    \/ QuietWrite
    \/ ProcessRestart

Spec == Init /\ [][Next]_vars

\* One process that keeps being asked for the page: every run of the script,
\* once requested, goes on to its end, and requests keep arriving.
Serve ==
    \/ Request
    \/ Connect
    \/ QTotalReviews
    \/ QUniqueUsers
    \/ QUniqueProducts
    \/ QRating
    \/ QYearly
    \/ QCasual
    \/ QRegular
    \/ QPower
    \/ QTopProducts
    \/ QAvg
    \/ QWordCount
    \/ QHelpful
    \/ Assemble
    \/ Display

LiveNext ==
    \/ Serve
    \/ QueryFails
    \/ QuietWrite

\* One process and writers of the store that do not wait for the script: a
\* write can fall between any two steps of a run, the queries of
\* load_stats_from_mongodb included (no snapshot is taken across them).
RaceInit ==
    InitFrom({<<BaseReviews, BaseUsers, BaseProducts>>,
              <<ExampleReviews, BaseUsers, BaseProducts>>,
              <<EmptyBag, EmptyBag, <<>> >>})

RaceNext ==
    \/ Serve
    \/ Write

RaceSpec == RaceInit /\ [][RaceNext]_vars

\* Two sessions of one process on an unchanged store: the script of the first
\* and the load of the second, interleaved in every way.
TiedProducts == <<Product(1, 1), Product(2, 1)>>

PairInit ==
    InitFrom({<<BaseReviews, BaseUsers, BaseProducts>>,
              <<BaseReviews, BaseUsers, TiedProducts>>})

PairNext ==
    \/ Request
    \/ Connect
    \/ QTotalReviews
    \/ QUniqueUsers
    \/ QUniqueProducts
    \/ QRating
    \/ QYearly
    \/ QCasual
    \/ QRegular
    \/ QPower
    \/ QTopProducts
    \/ QAvg
    \/ QWordCount
    \/ QHelpful
    \/ Assemble
    \/ Display
    \/ OtherRequest
    \/ OtherConnect
    \/ OtherQuery
    \/ OtherAssemble

PairSpec == PairInit /\ [][PairNext]_vars

LiveInit == InitFrom({<<BaseReviews, BaseUsers, BaseProducts>>})

LiveSpec == LiveInit /\ [][LiveNext]_vars /\ WF_vars(Serve)

\* One process that keeps being asked for the page, a store whose queries
\* succeed, and a connection setup that may start to work between two runs.
RecoverNext ==
    \/ Serve
    \/ QuietWrite
    \/ Recover

RecoverSpec == LiveInit /\ [][RecoverNext]_vars /\ WF_vars(Serve)

-----------------------------------------------------------------------------
(* Claims *)

\* the bundle st.cache_data holds, and whether the store is still the one
\* it was computed from
Held == Val(statsCache[1])
Current == HoldsBundle(statsCache) /\ cachedVer = ver

\* C1: when a store query raises after a handle was obtained, the load
\* yields None instead of raising and main reports "no data" instead of
\* ending with the exception.
C1_StoreFailureYieldsNoData ==
    (failed /\ pc = "idle") =>
        /\ outcome = "no_data"
        /\ IsNone(stats)
        /\ NoDataMsg \in view.errors

\* C2: when connect_mongodb yields no handle (no MONGODB_URI, or the setup
\* raised), load_stats_from_mongodb returns None without issuing a store
\* query, and main shows its error message and returns: no sidebar note, no
\* metrics, no tabs, no exception.
NoHandle == IsCached(dbCache) /\ IsNone(dbCache[1])

C2_NoHandleNoData ==
    NoHandle =>
        /\ pc \notin QueryPcs \cup {"assemble"}
        /\ issued = <<>>
        /\ IsNone(stats)
        /\ IsCached(statsCache) => IsNone(statsCache[1])
        /\ outcome \in {"running", "no_data"}
        /\ ~view.loaded /\ ~view.metrics /\ view.tabs = <<>>
        /\ (pc = "idle") => (outcome = "no_data" /\ NoDataMsg \in view.errors)

C2_Witness ==
    /\ NoHandle
    /\ pc = "idle"
    /\ outcome = "no_data"
    /\ view.errors = {ConnectFailedMsg, NoDataMsg}

\* C3: the bundle is constructed afresh on a request that arrives after the
\* cached bundle has expired: once the store has changed, some later request
\* is eventually served a bundle computed from the changed contents.
Stale == HoldsBundle(statsCache) /\ cachedVer < ver

ServedCurrent ==
    /\ pc = "main"
    /\ Current
    /\ stats = statsCache[1]

ServedFromCache == (HoldsBundle(statsCache) /\ pc = "main") => stats = statsCache[1]

KeepsBundle ==
    HoldsBundle(statsCache) =>
        /\ statsCache' = statsCache
        /\ pc' \notin QueryPcs \cup {"connect", "assemble"}

AllNonNegative == \A c \in Docs(user_stats) : ~IsNone(c) /\ Val(c) >= 0

C4_SegmentsPartition ==
    (Current /\ AllNonNegative) =>
        LET g == Held.user_segments
        IN g.casual + g.regular + g.power = Held.unique_users

C4_Witness ==
    /\ Current
    /\ AllNonNegative
    /\ Held.unique_users = 2
    /\ Held.user_segments.regular = 1
    /\ Held.user_segments.power = 1

\* C5: yearly_data has exactly one entry for each distinct non-null year
\* carried by a review, holding that year's review count and mean score, and
\* no entry for reviews without a year.
NonNullYears == {Val(d.year) : d \in {x \in Docs(reviews) : ~IsNone(x.year)}}

ReviewsOfYear(y) == [d \in {x \in Docs(reviews) : x.year = Some(y)} |-> reviews[d]]

Scored(bag) == [d \in {x \in DOMAIN bag : ~IsNone(x.score)} |-> bag[d]]

ScoreSum(bag) == SumSet(DOMAIN bag, [d \in DOMAIN bag |-> Val(d.score) * bag[d]])

\* m is the mean score of the scored reviews of the bag (None without any)
IsMeanScore(m, bag) ==
    LET sc == Scored(bag)
        n == BagCardinality(sc)
    IN IF n = 0 THEN IsNone(m)
       ELSE ~IsNone(m) /\ Val(m).num * n = ScoreSum(sc) * Val(m).den

YearEntryRight(yd, y) ==
    /\ ToString(y) \in DOMAIN yd
    /\ yd[ToString(y)].count = BagCardinality(ReviewsOfYear(y))
    /\ IsMeanScore(yd[ToString(y)].avg_rating, ReviewsOfYear(y))

C5_YearlyDataPerNonNullYear ==
    Current =>
        /\ DOMAIN Held.yearly_data = {ToString(y) : y \in NonNullYears}
        /\ \A y \in NonNullYears : YearEntryRight(Held.yearly_data, y)

\* What the code does instead: a year of 0 is dropped with the null years.
C5_YearlyDataPerNonZeroYear ==
    Current =>
        /\ DOMAIN Held.yearly_data = {ToString(y) : y \in NonNullYears \ {0}}
        /\ \A y \in NonNullYears \ {0} : YearEntryRight(Held.yearly_data, y)

\* C6: rating_percentages has the keys of rating_counts, each value being
\* rating_counts[k] / total_reviews * 100, and is empty when total_reviews
\* is 0.
C6_RatingPercentages ==
    HoldsBundle(statsCache) =>
        LET rc == Held.rating_counts
            pct == Held.rating_percentages
            total == Held.total_reviews
        IN /\ DOMAIN pct = DOMAIN rc
           /\ \A k \in DOMAIN rc :
                 /\ pct[k].den > 0
                 /\ pct[k].num * total = rc[k] * 100 * pct[k].den
           /\ (total = 0) => (pct = <<>>)

C6_Witness ==
    /\ HoldsBundle(statsCache)
    /\ Held.total_reviews = 2
    /\ DOMAIN Held.rating_percentages = {"None", "5.0"}
    /\ Held.rating_percentages["5.0"] = [num |-> 50, den |-> 1]

\* C7: top_products has length min(15, unique_products), is ordered by
\* review_count non-increasing, holds no product twice, and no product left
\* out has more reviews than one that is in.
C7_TopProducts ==
    Current =>
        LET top == Held.top_products
        IN /\ Len(top) = Min(15, Held.unique_products)
           /\ \A i, j \in DOMAIN top :
                 i < j => top[i].review_count >= top[j].review_count
           /\ \A i, j \in DOMAIN top : i # j => top[i]._id # top[j]._id
           /\ Range(top) \subseteq Range(product_stats)
           /\ \A p \in Range(product_stats) \ Range(top) : \A i \in DOMAIN top :
                 p.review_count <= top[i].review_count

C7_Witness ==
    /\ Current
    /\ Len(product_stats) = 16
    /\ Len(Held.top_products) = 15
    /\ \E p \in Range(product_stats) \ Range(Held.top_products) :
          p.review_count = Held.top_products[15].review_count

\* C8: for an available store with zero reviews the load returns a bundle
\* with total_reviews = 0, avg_rating = 0 and empty rating_counts,
\* rating_percentages, yearly_data and top_products.
ZeroReviewFields ==
    /\ Held.total_reviews = 0
    /\ Held.avg_rating = Some(Zero)
    /\ Held.rating_counts = <<>>
    /\ Held.rating_percentages = <<>>
    /\ Held.yearly_data = <<>>

C8_ZeroReviewsAllEmpty ==
    /\ (env = "ok" /\ pc = "main") => ~IsNone(stats)
    /\ (Current /\ reviews = EmptyBag) =>
          (ZeroReviewFields /\ Held.top_products = <<>>)

\* C8 as amended: top_products is present and holds the top rows of
\* product_stats, which need not be empty when there is no review; it is
\* empty when product_stats is.
C8_ZeroReviews ==
    /\ (env = "ok" /\ pc = "main") => ~IsNone(stats)
    /\ (Current /\ reviews = EmptyBag) =>
          /\ ZeroReviewFields
          /\ Len(Held.top_products) = Min(15, Len(product_stats))
          /\ (product_stats = <<>>) => (Held.top_products = <<>>)

C8_Witness ==
    /\ Current
    /\ reviews = EmptyBag
    /\ Held.top_products # <<>>
    /\ outcome = "rendered"

\* C9: two computations of the statistics on an unchanged store give
\* identical bundles in every field, the order of top_products among
\* products of equal review_count included.
TwoComputations == HoldsBundle(statsCache) /\ prev # <<>> /\ prev[1].ver = cachedVer

C9_IdenticalBundles == TwoComputations => Held = prev[1].bundle

\* C9 as amended: identical in every field but top_products, whose
\* review_count sequence is the same; the rows themselves are the same when
\* no two products have equal review_count.
NoTies(ps) == \A i, j \in DOMAIN ps : i # j => ps[i].review_count # ps[j].review_count

C9_IdenticalUpToTies ==
    TwoComputations =>
        LET a == prev[1].bundle
            b == Held
        IN /\ \A f \in DOMAIN b \ {"top_products"} : a[f] = b[f]
           /\ Len(a.top_products) = Len(b.top_products)
           /\ \A i \in DOMAIN b.top_products :
                 a.top_products[i].review_count = b.top_products[i].review_count
           /\ (cachedVer = ver /\ NoTies(product_stats)) =>
                 (a.top_products = b.top_products)

C9_Witness ==
    /\ TwoComputations
    /\ Held.top_products # prev[1].bundle.top_products
    /\ Held.total_reviews > 0

\* C10: rating_counts maps the label of each score that occurs among the
\* reviews to the number of reviews with that score and has no other key; a
\* review without a score occurs under the null score, whose label is
\* "None".  Scores [1,1,5,5,5] give 2 and 3, percentages 40 and 60.
ScoreLabel(s) == IF IsNone(s) THEN "None" ELSE IF Val(s) = 1 THEN "1.0" ELSE "5.0"

ReviewsOfScore(s) == [d \in {x \in Docs(reviews) : x.score = s} |-> reviews[d]]

C10_RatingCounts ==
    Current =>
        LET rc == Held.rating_counts
            scores == {d.score : d \in Docs(reviews)}
        IN /\ DOMAIN rc = {ScoreLabel(s) : s \in scores}
           /\ \A s \in scores : rc[ScoreLabel(s)] = BagCardinality(ReviewsOfScore(s))
           /\ (reviews = ExampleReviews) =>
                 /\ rc = [k \in {"1.0", "5.0"} |-> IF k = "1.0" THEN 2 ELSE 3]
                 /\ Held.rating_percentages =
                       [k \in {"1.0", "5.0"} |->
                           IF k = "1.0" THEN [num |-> 40, den |-> 1]
                           ELSE [num |-> 60, den |-> 1]]

C10_Witness ==
    /\ Current
    /\ reviews = ExampleReviews
    /\ DOMAIN Held.rating_counts = {"1.0", "5.0"}

\* C11: for each score s, word_count_by_rating[s] is the mean of word_count
\* over exactly the reviews with score s that have a word_count; a review
\* without word_count adds nothing to the sum or the divisor and does not
\* make the computation fail.
WordCountSum(bag) == SumSet(DOMAIN bag, [d \in DOMAIN bag |-> Val(d.word_count) * bag[d]])

\* m is the mean word_count of the reviews of the bag that have one (None
\* when none has)
IsMeanWordCount(m, bag) ==
    LET has == [d \in {x \in DOMAIN bag : ~IsNone(x.word_count)} |-> bag[d]]
        n == BagCardinality(has)
    IN IF n = 0 THEN IsNone(m)
       ELSE ~IsNone(m) /\ Val(m).num * n = WordCountSum(has) * Val(m).den

C11_WordCountByRating ==
    Current =>
        LET wc == Held.word_count_by_rating
            scores == {d.score : d \in Docs(reviews)}
        IN /\ DOMAIN wc = {ScoreLabel(s) : s \in scores}
           /\ \A s \in scores : IsMeanWordCount(wc[ScoreLabel(s)], ReviewsOfScore(s))

C11_Witness ==
    /\ Current
    /\ reviews = SeqToBag(<<Review(Some(5), Some(2000), None, Some(Frac(1, 1))),
                            Review(Some(5), Some(2001), Some(20), Some(Frac(1, 1)))>>)
    /\ Held.word_count_by_rating["5.0"] = Some(Frac(20, 1))
    /\ outcome = "rendered"

\* C12: helpful_by_rating has a key for score s if and only if some review
\* with score s has a helpfulness ratio, and its value is the mean ratio
\* over exactly those reviews.
Rated(bag) == [d \in {x \in DOMAIN bag : ~IsNone(x.helpful_ratio)} |-> bag[d]]

\* m is the mean helpfulness ratio of the (rated) reviews of the bag
IsMeanHelpful(m, bag) ==
    LET dens == {Val(d.helpful_ratio).den : d \in DOMAIN bag}
        common == CHOOSE c \in 1..4 : \A k \in dens : c % k = 0
        total == SumSet(DOMAIN bag,
                        [d \in DOMAIN bag |->
                            Val(d.helpful_ratio).num
                              * (common \div Val(d.helpful_ratio).den) * bag[d]])
    IN /\ ~IsNone(m)
       /\ Val(m).num * common * BagCardinality(bag) = total * Val(m).den

C12_HelpfulByRating ==
    Current =>
        LET hb == Held.helpful_by_rating
            scores == {d.score : d \in Docs(reviews)}
            rated == {s \in scores : BagCardinality(Rated(ReviewsOfScore(s))) > 0}
        IN /\ DOMAIN hb = {ScoreLabel(s) : s \in rated}
           /\ \A s \in rated : IsMeanHelpful(hb[ScoreLabel(s)], Rated(ReviewsOfScore(s)))

C12_Witness ==
    /\ Current
    /\ DOMAIN Held.rating_counts = {"1.0", "5.0"}
    /\ DOMAIN Held.helpful_by_rating = {"5.0"}
    /\ Held.helpful_by_rating["5.0"] = Some(Frac(1, 1))

\* C13: a call of load_stats_from_mongodb, whether it returns a bundle or
\* None, leaves the reviews, user_stats and product_stats collections as
\* they were: every store operation it issues is a read.
LoadPcs == {"connect", "assemble"} \cup QueryPcs

LoadStepReadsOnly == (pc \in LoadPcs) => (store' = store)

C13_LoadReadsOnly == [][LoadStepReadsOnly]_vars

C13_Witness ==
    /\ pc = "main"
    /\ Len(issued) = 12
    /\ HoldsBundle(statsCache)
    /\ product_stats = <<Product(1, 1), Product(2, 2)>>

\* C14: the bundle is never mutated after it is constructed: main only
\* reads it, so when main has finished every field of the bundle has the
\* value it had when load_stats_from_mongodb returned it.
MainKeepsBundle == (pc = "main") => (stats' = stats /\ statsCache' = statsCache)

MainDone == pc = "idle" /\ outcome \in {"rendered", "crashed"} /\ ~failed

BundleAsReturned == (MainDone /\ HoldsBundle(statsCache)) => stats = statsCache[1]

C14_BundleNotMutated == []BundleAsReturned /\ [][MainKeepsBundle]_vars

C14_Witness ==
    /\ MainDone
    /\ outcome = "rendered"
    /\ stats = statsCache[1]
    /\ DOMAIN Held.yearly_data = {"1996", "2001"}
    /\ view.charts["tab1"].years = <<2001>>

\* C15: two calls of the statistics computation that overlap on an
\* unchanged store share no mutable state: a step of either leaves the
\* position and locals of the other as they were, and under every
\* interleaving each returns a bundle that a call running alone returns.
StoreLocals(tie) ==
    [total_reviews |-> TotalReviews(reviews),
     unique_users |-> UniqueUsers(user_stats),
     unique_products |-> UniqueProducts(product_stats),
     rating_counts |-> RatingCounts(reviews),
     yearly_data |-> YearlyData(reviews),
     casual |-> Casual(user_stats),
     regular |-> Regular(user_stats),
     power |-> Power(user_stats),
     top_products |-> TopProducts(product_stats, tie),
     avg_result |-> AvgResult(reviews),
     word_count_by_rating |-> WordCountByRating(reviews),
     helpful_by_rating |-> HelpfulByRating(reviews)]

\* the bundles a call running alone on the store can return
IsolatedBundles == {Bundle(StoreLocals(tie)) : tie \in TieOrders}

FirstCall == <<pc, loc, issued, stats>>

BothReturnIsolated ==
    /\ (pc = "main" /\ ~IsNone(stats)) => Val(stats) \in IsolatedBundles
    /\ (other.pc = "done" /\ ~IsNone(other.result)) =>
          Val(other.result) \in IsolatedBundles

NoInterference ==
    /\ (other' # other) => (FirstCall' = FirstCall)
    /\ (FirstCall' # FirstCall) => (other' = other)

C15_OverlappingCalls == []BothReturnIsolated /\ [][NoInterference]_vars

\* both calls ran their bodies to the end, overlapping, and returned
\* bundles (here with the tied products in different order)
C15_Witness ==
    /\ pc = "main"
    /\ other.pc = "done"
    /\ Len(issued) = 12
    /\ ~IsNone(stats)
    /\ ~IsNone(other.result)
    /\ other.result # stats
    /\ statsCache = Cached(other.result)

\* C16: every user_stats row with review_count >= 0 is counted in exactly
\* one segment: casual iff review_count <= 5, regular iff 5 < review_count
\* <= 50, power iff review_count > 50; so 5 is casual only, 50 regular only
\* and 51 power only.
SegmentOf(c) == IF c <= 5 THEN "casual" ELSE IF c <= 50 THEN "regular" ELSE "power"

UsersOfSegment(g) ==
    [c \in {x \in Docs(user_stats) : ~IsNone(x) /\ Val(x) >= 0 /\ SegmentOf(Val(x)) = g}
        |-> user_stats[c]]

C16_SegmentThresholds ==
    (Current /\ AllNonNegative) =>
        \A g \in {"casual", "regular", "power"} :
            Held.user_segments[g] = BagCardinality(UsersOfSegment(g))

C16_Witness ==
    /\ Current
    /\ user_stats = SeqToBag(<<Some(5), Some(50)>>)
    /\ Held.user_segments = [casual |-> 1, regular |-> 1, power |-> 0]

\* C17: an uncached call with a handle issues its store queries one after
\* another in a fixed order (three collection counts, rating grouping,
\* yearly grouping, three segment counts, top-15 selection, overall
\* averages, word count by score, helpfulness by score), each exactly once
\* and none retried, and the bundle is assembled only after the last one.
QueryOrder ==
    << "reviews.count_documents", "user_stats.count_documents",
       "product_stats.count_documents", "reviews.aggregate(score count)",
       "reviews.aggregate(year)", "user_stats.count_documents(casual)",
       "user_stats.count_documents(regular)", "user_stats.count_documents(power)",
       "product_stats.find.sort.limit", "reviews.aggregate(avg)",
       "reviews.aggregate(score avg_wc)", "reviews.aggregate(score avg_helpful)" >>

IssuedInOrder ==
    /\ Len(issued) <= Len(QueryOrder)
    /\ issued = SubSeq(QueryOrder, 1, Len(issued))
    /\ (pc = "assemble") => (issued = QueryOrder)

\* a step never issues more than one query
OneAtATime == Len(issued') <= Len(issued) + 1

\* a bundle enters the cache only when all twelve queries have returned
AssembledLast ==
    (HoldsBundle(statsCache') /\ statsCache' # statsCache) =>
        (pc = "assemble" /\ issued = QueryOrder /\ DOMAIN loc = DOMAIN StoreLocals("natural"))

C17_QueriesInOrder == []IssuedInOrder /\ [][OneAtATime /\ AssembledLast]_vars

C17_Witness ==
    /\ pc = "main"
    /\ issued = QueryOrder
    /\ HoldsBundle(statsCache)
    /\ stats = statsCache[1]

\* C18: given the bundle produced for a store with no reviews, no user
\* summaries and no product summaries, main renders the metrics and all
\* tabs to completion without raising: missing per-score entries are shown
\* as 0, the divisor of the segment percentages is 1, the yearly series is
\* empty and the product chart is skipped.
ZeroBundle(b) == b.total_reviews = 0 /\ b.unique_users = 0 /\ b.unique_products = 0

Zeros == [i \in 1..5 |-> 0]
ZeroAverages == [i \in 1..5 |-> Some([num |-> 0, den |-> 1])]

ZeroStatePage ==
    /\ outcome = "rendered"
    /\ view.errors = {}
    /\ view.metrics
    /\ view.tabs = <<"tab0", "tab7", "tab1", "tab2", "tab3", "tab4", "tab5", "tab6">>
    /\ view.charts["tab1"] = [years |-> <<>>, counts |-> <<>>, avg_ratings |-> <<>>]
    /\ view.charts["tab2"].counts = Zeros
    /\ view.charts["tab3"].helpful_vals = ZeroAverages
    /\ view.charts["tab4"].word_counts = ZeroAverages
    /\ view.charts["tab5"].total_users = 1
    /\ \A g \in {"casual", "regular", "power"} :
          view.charts["tab5"].percentages[g] = [num |-> 0, den |-> 1]
    /\ ~view.charts["tab6"].chart

C18_ZeroStateRenders ==
    (MainDone /\ ~IsNone(stats) /\ ZeroBundle(Val(stats))) => ZeroStatePage

C18_Witness ==
    /\ MainDone
    /\ ~IsNone(stats)
    /\ ZeroBundle(Val(stats))
    /\ reviews = EmptyBag /\ user_stats = EmptyBag /\ product_stats = <<>>
    /\ Len(view.tabs) = 8

\* C19: the trends tab plots exactly the years of yearly_data that are
\* >= 1997, in ascending order, with the count and average-rating series
\* aligned with the year list; earlier years are left out of the chart but
\* stay in the bundle.
BundleYears(b) == {n \in IntLiterals : ToString(n) \in DOMAIN b.yearly_data}

TrendChartRight(c, b) ==
    /\ Range(c.years) = {y \in BundleYears(b) : y >= 1997}
    /\ \A i, j \in DOMAIN c.years : i < j => c.years[i] < c.years[j]
    /\ DOMAIN c.counts = DOMAIN c.years
    /\ DOMAIN c.avg_ratings = DOMAIN c.years
    /\ \A i \in DOMAIN c.years :
          /\ c.counts[i] = b.yearly_data[ToString(c.years[i])].count
          /\ c.avg_ratings[i] = b.yearly_data[ToString(c.years[i])].avg_rating

C19_TrendsFrom1997 ==
    (MainDone /\ ~IsNone(stats) /\ "tab1" \in DOMAIN view.charts) =>
        /\ TrendChartRight(view.charts["tab1"], Val(stats))
        /\ Cardinality(BundleYears(Val(stats))) = Cardinality(DOMAIN Val(stats).yearly_data)

C19_Witness ==
    /\ MainDone
    /\ ~IsNone(stats)
    /\ DOMAIN Val(stats).yearly_data = {"1996", "2000"}
    /\ "tab1" \in DOMAIN view.charts
    /\ view.charts["tab1"].years = <<2000>>
    /\ view.charts["tab1"].counts = <<1>>

C19_WitnessAscending ==
    /\ MainDone
    /\ ~IsNone(stats)
    /\ "tab1" \in DOMAIN view.charts
    /\ view.charts["tab1"].years = <<2000, 2001>>

\* C20: if a request finds the store handle unavailable and the store later
\* becomes available, some later request in the same process is served a
\* bundle instead of the error; the unavailable result is not retained
\* forever by the two memoized functions.
FoundUnavailable == IsCached(dbCache) /\ IsNone(dbCache[1])

ServedBundle == pc = "main" /\ ~IsNone(stats)

C20_RecoversFromUnavailable == (FoundUnavailable /\ env = "ok") ~> ServedBundle

\* What the code does instead: the None that connect_mongodb and
\* load_stats_from_mongodb returned stays in both caches, and every later
\* request of the process ends with the error message.
NoneRetained ==
    FoundUnavailable =>
        /\ dbCache' = dbCache
        /\ statsCache' = Cached(None)
        /\ IsNone(stats')

C20_UnavailableRetained == [][NoneRetained]_vars

C20_Reached ==
    /\ FoundUnavailable
    /\ env = "ok"
    /\ pc = "idle"
    /\ outcome = "no_data"
    /\ NoDataMsg \in view.errors

\* C21: for every bundle returned from a store with at least one review,
\* reviews without score or word_count included, every value main formats as
\* a number (avg_rating, avg_word_count, and the word_count_by_rating and
\* helpful_by_rating values looked up for the scores 1.0 to 5.0) is numeric
\* and never None, so main renders to completion without raising.
FormattedValues(b) ==
    {b.avg_rating, b.avg_word_count}
        \cup {GetOr(b.word_count_by_rating, Ratings[i], Some(Zero)) : i \in DOMAIN Ratings}
        \cup {GetOr(b.helpful_by_rating, Ratings[i], Some(Zero)) : i \in DOMAIN Ratings}

C21_FormattedValuesNumeric ==
    /\ (Current /\ BagCardinality(reviews) >= 1) =>
          \A v \in FormattedValues(Held) : ~IsNone(v)
    /\ (MainDone /\ ~IsNone(stats) /\ Val(stats).total_reviews >= 1) =>
          outcome = "rendered"

\* What the code guarantees: the helpfulness values are numeric, and so are
\* all formatted values when every review has a score and a word_count.
AllScoredAndCounted ==
    \A d \in Docs(reviews) : ~IsNone(d.score) /\ ~IsNone(d.word_count)

C21_NumericWhenFieldsPresent ==
    /\ HoldsBundle(statsCache) =>
          \A i \in DOMAIN Ratings :
              ~IsNone(GetOr(Held.helpful_by_rating, Ratings[i], Some(Zero)))
    /\ (Current /\ AllScoredAndCounted) =>
          \A v \in FormattedValues(Held) : ~IsNone(v)
    /\ (Current /\ AllScoredAndCounted /\ MainDone /\ stats = statsCache[1]) =>
          outcome = "rendered"

\* a run of main that crashed formatting the None average of a store whose
\* only review has no score
C21_Reached ==
    /\ MainDone
    /\ Current
    /\ stats = statsCache[1]
    /\ reviews = SeqToBag(<<Review(None, Some(2000), None, None)>>)
    /\ IsNone(Held.avg_rating)
    /\ outcome = "crashed"
    /\ ~view.metrics

\* C22: even when a concurrent writer inserts or deletes reviews between
\* the queries of one call, every value of rating_percentages in the
\* returned bundle lies in [0, 100] and no rating_counts value exceeds
\* total_reviews.
InPercentRange(f) == f.num >= 0 /\ f.den > 0 /\ f.num <= 100 * f.den

CountsWithinTotal(b) ==
    /\ \A k \in DOMAIN b.rating_percentages : InPercentRange(b.rating_percentages[k])
    /\ \A k \in DOMAIN b.rating_counts : b.rating_counts[k] <= b.total_reviews

C22_PercentagesBounded == HoldsBundle(statsCache) => CountsWithinTotal(Held)

\* C22 as amended: the bounds hold for a bundle whose call ran with no
\* write to the store in between.  With a writer in between, every
\* percentage is still non-negative and still equals rating_counts[k] /
\* total_reviews * 100 (none at all when total_reviews is 0), but a review
\* inserted after the count of line 155 and before the grouping of lines
\* 159-162 makes a rating count exceed total_reviews and its percentage
\* exceed 100.
PercentagesFromCounts(b) ==
    /\ b.total_reviews >= 0
    /\ \A k \in DOMAIN b.rating_counts : b.rating_counts[k] >= 1
    /\ IF b.total_reviews = 0 THEN b.rating_percentages = <<>>
       ELSE /\ DOMAIN b.rating_percentages = DOMAIN b.rating_counts
            /\ \A k \in DOMAIN b.rating_counts :
                  /\ b.rating_percentages[k].den > 0
                  /\ b.rating_percentages[k].num >= 0
                  /\ b.rating_percentages[k].num * b.total_reviews
                        = b.rating_counts[k] * 100 * b.rating_percentages[k].den

C22_BoundedWithoutWriter ==
    HoldsBundle(statsCache) =>
        /\ PercentagesFromCounts(Held)
        /\ ~raced => CountsWithinTotal(Held)

\* a review was inserted between the count and the grouping: one review
\* counted, two one-star reviews grouped, 200 per cent
C22_Witness ==
    /\ HoldsBundle(statsCache)
    /\ raced
    /\ Held.total_reviews = 1
    /\ Held.rating_counts = [k \in {"1.0"} |-> 2]
    /\ Held.rating_percentages = [k \in {"1.0"} |-> [num |-> 200, den |-> 1]]
    /\ outcome = "rendered"

\* a call with no write in between, on a store with reviews
C22_WitnessQuiet ==
    /\ HoldsBundle(statsCache)
    /\ ~raced
    /\ ver = 1
    /\ Held.total_reviews = 5
    /\ Held.rating_percentages["5.0"] = [num |-> 60, den |-> 1]

\* C23: when the store is not modified during a call, the values of
\* rating_counts sum to total_reviews (a review without a score is still
\* counted in some group), the yearly_data counts sum to at most
\* total_reviews, and to exactly total_reviews when every review has a
\* non-null year.
RatingSum(b) == SumSet(DOMAIN b.rating_counts, b.rating_counts)

YearlySum(b) ==
    SumSet(DOMAIN b.yearly_data, [k \in DOMAIN b.yearly_data |-> b.yearly_data[k].count])

AllYearsNonNull == \A d \in Docs(reviews) : ~IsNone(d.year)

C23_CountsSumToTotal ==
    Current =>
        /\ Held.total_reviews = BagCardinality(reviews)
        /\ RatingSum(Held) = Held.total_reviews
        /\ YearlySum(Held) <= Held.total_reviews
        /\ AllYearsNonNull => (YearlySum(Held) = Held.total_reviews)

\* What the code guarantees: the yearly counts add up to the number of
\* reviews whose year is neither null nor 0.
AllYearsNonZero == \A d \in Docs(reviews) : ~IsNone(d.year) /\ Val(d.year) # 0

C23_SumsUpToYearZero ==
    Current =>
        /\ Held.total_reviews = BagCardinality(reviews)
        /\ RatingSum(Held) = Held.total_reviews
        /\ YearlySum(Held) <= Held.total_reviews
        /\ AllYearsNonZero => (YearlySum(Held) = Held.total_reviews)

\* a bundle computed from a store whose only review is of year 0
C23_Reached ==
    /\ Current
    /\ reviews = SeqToBag(<<Review(Some(5), Some(0), Some(10), None)>>)
    /\ Held.total_reviews = 1
    /\ RatingSum(Held) = 1
    /\ Held.yearly_data = <<>>

====
